---- MODULE Spec2Model ----
(***************************************************************************)
(* rustbox (src/src/lib.rs): a raw-mode terminal session that owns a       *)
(* buffered output channel (BufferedFile) and a front/back grid of styled  *)
(* cells (RustBox).  Bytes are modelled as integers 0..255, the escape     *)
(* sequences as the exact byte strings the Display impls produce.          *)
(***************************************************************************)
EXTENDS Integers, Sequences, FiniteSets, TLC

VARIABLES
    phase,          \* "Uninitialized" | "Active" | "Closed" | "Failed"
    pc,             \* "idle" | "dropping" (between RustBox's drop and its fields')
                    \* | "flushing" (in flush_inner's loop, before a device write)
                    \* | "returned" (flush has returned, its caller has not resumed)
    caller,         \* who called flush: "none" | "new" | "present" | "drop" | "client"
    panicked,       \* print_char indexed out of bounds; the stack is unwinding
    tty,            \* the terminal's current termios
    orig_ios,       \* RustBox.orig_ios
    width, height,  \* RustBox.width / RustBox.height (win_size until the struct is built)
    front_buffer,   \* RustBox.front_buffer : rows of cells
    back_buffer,    \* RustBox.back_buffer
    buf,            \* BufferedFile.buf : the pending bytes
    dev,            \* every byte the device has confirmed, in order
    written, len, ret,   \* flush_inner's locals
    wlast,          \* outcome of the last device write of the current flush
    granule,        \* the device confirms all it was given, or a multiple of granule bytes
    buf0, dev0,     \* history: buf and dev when the current flush started
    mark,           \* history: Len(buf) when the current operation started queueing
    queued,         \* history: every byte ever passed to BufferedFile::write
    restores,       \* history: the termios values teardown passed to set_terminal_attr
    pre_ios,        \* history: the terminal's termios when new() was entered
    latest,         \* history: <<x, y>> -> the values of the latest print_char there
    noob,           \* history: print_char calls made with x >= width or y >= height
    stdin_tty,      \* whether fd 0 is the terminal, so that tcgetattr/tcsetattr on it work
    present_result, \* the value the last present() returned to its caller
    second,         \* the RustBoxes built while this one is alive: <<>> or one struct
    nfaults, npresent, nsetcell   \* counters that bound the exploration

vars == <<phase, pc, caller, panicked, tty, orig_ios, width, height, front_buffer,
          back_buffer, buf, dev, written, len, ret, wlast, granule, buf0, dev0, mark,
          queued, restores, pre_ios, latest, noob, stdin_tty, present_result, second,
          nfaults, npresent, nsetcell>>

session_vars == <<phase, panicked, tty, orig_ios, width, height, front_buffer,
                  back_buffer, restores, pre_ios, latest, noob, stdin_tty,
                  present_result, second, npresent, nsetcell>>

(* ------------------------------ bounds ------------------------------ *)
MaxPresents == 2
MaxSetCells == 2
MaxFaults == 1
PartialLen == 64
MaxQueued == 4

\* terminal geometries TIOCGWINSZ reports, <<ws_col, ws_row>>; <<0, 0>> also when it fails
Geometries == {<<0, 0>>, <<0, 2>>, <<2, 1>>, <<2, 2>>}

(* ----------------------- termcodes (lines 11-44) --------------------- *)
CSI == <<27, 91>>
EnterCa == CSI \o <<63, 49, 48, 52, 57, 104, 27, 91, 50, 50, 59, 48, 59, 48, 116>>
ExitCa == CSI \o <<63, 49, 48, 52, 57, 108, 27, 91, 50, 51, 59, 48, 59, 48, 116>>
ClearScreen == CSI \o <<72, 27, 91, 50, 74>>
HideCursor == CSI \o <<63, 50, 53, 108>>
ShowCursor == CSI \o <<63, 50, 53, 104>>
SGR0 == CSI \o <<109, 15>>
EnterKeypad == <<27, 61>>
ExitKeypad == <<27, 62>>

(* ------------------------- Style, Color, Cell ------------------------ *)
Style == {"Normal", "Underline", "Bold", "Blink", "Reverse"}
Color == {"Black", "Red", "White"}

\* variant: White as the bright white of the 16-colour palette
as_256_color_bright(c) ==
    CASE c = "Black" -> 0
      [] c = "Red" -> 1
      [] c = "White" -> 15

as_256_color(c) ==
    CASE c = "Black" -> 0
      [] c = "Red" -> 1
      [] c = "White" -> 7

\* the "{}" formatting of an unsigned integer: its decimal digits in ASCII
RECURSIVE Decimal(_)
Decimal(n) == IF n < 10 THEN <<48 + n>> ELSE Decimal(n \div 10) \o <<48 + (n % 10)>>

\* the "{}" formatting of a char: its UTF-8 encoding (code points below 65536)
Utf8(cp) ==
    IF cp < 128 THEN <<cp>>
    ELSE IF cp < 2048 THEN <<192 + (cp \div 64), 128 + (cp % 64)>>
    ELSE <<224 + (cp \div 4096), 128 + ((cp \div 64) % 64), 128 + (cp % 64)>>

StyleCode(s) ==
    CASE s = "Normal" -> <<>>
      [] s = "Underline" -> <<27, 91, 52, 109>>
      [] s = "Bold" -> <<27, 91, 49, 109>>
      [] s = "Blink" -> <<27, 91, 53, 109>>
      [] s = "Reverse" -> <<27, 91, 55, 109>>

SetFg(n) == <<27, 91, 51, 56, 59, 53, 59>> \o Decimal(n) \o <<109>>
SetBg(n) == <<27, 91, 52, 56, 59, 53, 59>> \o Decimal(n) \o <<109>>

\* variant: the style fragment queued before the reset
CellBytesStyleFirst(cell) ==
    StyleCode(cell.style) \o SGR0
         \o SetFg(as_256_color(cell.fg) % 256)
         \o SetBg(as_256_color(cell.bg) % 256)
         \o Utf8(cell.ch)

\* what present's inner loop body queues for one cell
CellBytes(cell) ==
    SGR0 \o StyleCode(cell.style)
         \o SetFg(as_256_color(cell.fg) % 256)
         \o SetBg(as_256_color(cell.bg) % 256)
         \o Utf8(cell.ch)

RECURSIVE RowBytes(_, _)
RowBytes(row, j) ==
    IF j > Len(row) THEN <<>> ELSE CellBytes(row[j]) \o RowBytes(row, j + 1)

RECURSIVE ColumnMajor(_, _, _)
ColumnMajor(grid, i, j) ==
    IF j > Len(grid[1]) THEN <<>>
    ELSE IF i > Len(grid) THEN ColumnMajor(grid, 1, j + 1)
    ELSE CellBytes(grid[i][j]) \o ColumnMajor(grid, i + 1, j)

\* variant: the loops nested the other way round, columns outermost
GridBytesColumnMajor(grid, i) ==
    IF grid = <<>> THEN <<>> ELSE ColumnMajor(grid, i, 1)

\* present's two nested loops over front_buffer
RECURSIVE GridBytes(_, _)
GridBytes(grid, i) ==
    IF i > Len(grid) THEN <<>> ELSE RowBytes(grid[i], 1) \o GridBytes(grid, i + 1)

\* the cell new() fills the buffers with
InitCell == [ch |-> 120, fg |-> "White", bg |-> "Black", style |-> "Normal"]

\* variant: the two loop bounds exchanged, ws_col rows of ws_row cells
AllocBufferSwapped(cols, rows) == [i \in 1..cols |-> [j \in 1..rows |-> InitCell]]

\* new()'s allocation loops: ws_row rows of ws_col cells
AllocBuffer(cols, rows) == [i \in 1..rows |-> [j \in 1..cols |-> InitCell]]

\* the calls print_char(x, y, style, fg, bg, ch) made in this model: every style and
\* colour, two different values for every position of a 2 x 2 grid, and coordinates
\* that no geometry of the model contains
PrintCharInputs ==
    { [x |-> 0, y |-> 0, ch |-> 65, fg |-> "Red", bg |-> "White", style |-> "Underline"],
      [x |-> 0, y |-> 0, ch |-> 66, fg |-> "White", bg |-> "Black", style |-> "Normal"],
      [x |-> 1, y |-> 0, ch |-> 233, fg |-> "Black", bg |-> "Red", style |-> "Bold"],
      [x |-> 1, y |-> 0, ch |-> 67, fg |-> "Red", bg |-> "Black", style |-> "Normal"],
      [x |-> 0, y |-> 1, ch |-> 68, fg |-> "White", bg |-> "Red", style |-> "Blink"],
      [x |-> 0, y |-> 1, ch |-> 8364, fg |-> "Black", bg |-> "White", style |-> "Normal"],
      [x |-> 1, y |-> 1, ch |-> 69, fg |-> "Red", bg |-> "Red", style |-> "Reverse"],
      [x |-> 1, y |-> 1, ch |-> 70, fg |-> "Black", bg |-> "Black", style |-> "Underline"],
      [x |-> 2, y |-> 0, ch |-> 71, fg |-> "Red", bg |-> "White", style |-> "Bold"],
      [x |-> 0, y |-> 2, ch |-> 72, fg |-> "Red", bg |-> "White", style |-> "Bold"] }

\* the Cell a call's arguments describe
CellOf(c) == [ch |-> c.ch, bg |-> c.bg, fg |-> c.fg, style |-> c.style]

\* variant: the two indices exchanged, back_buffer[x][y], in a grid that has that cell
StoreCellTransposed(grid, x, y, c) ==
    IF x < Len(grid) /\ y < Len(grid[x + 1])
    THEN [grid EXCEPT ![x + 1][y + 1] =
            [ch |-> c.ch, bg |-> c.bg, fg |-> c.fg, style |-> c.style]]
    ELSE grid

\* print_char's four field assignments on back_buffer[y][x] (0-based x, y)
StoreCell(grid, x, y, c) ==
    [grid EXCEPT ![y + 1][x + 1] =
        [ch |-> c.ch, bg |-> c.bg, fg |-> c.fg, style |-> c.style]]

\* variant: an index past the end taken as the last row or column
InBoundsClamped(grid, x, y) == Len(grid) > 0 /\ Len(grid[1]) > 0

\* whether back_buffer[y][x] is a valid index
InBounds(grid, x, y) == y < Len(grid) /\ x < Len(grid[y + 1])

(* ------------------------------ termios ------------------------------ *)
Zeroed == [iflag |-> {}, oflag |-> {}, lflag |-> {}, cflag |-> {}, vmin |-> 0, vtime |-> 0]

\* a terminal in its usual line-discipline mode, 7 bits with parity
Cooked == [iflag |-> {"BRKINT", "ICRNL", "IXON", "IUTF8"},
           oflag |-> {"OPOST", "ONLCR"},
           lflag |-> {"ECHO", "ECHOE", "ICANON", "ISIG", "IEXTEN"},
           cflag |-> {"CS7", "PARENB", "CREAD"},
           vmin |-> 1, vtime |-> 0]

\* the flag edits of new() on the working copy; CSIZE is the two bits CS6 | CS7 = CS8
RawMode(ios) ==
    [iflag |-> ios.iflag \ {"IGNBRK", "BRKINT", "PARMRK", "ISTRIP",
                            "INLCR", "IGNCR", "ICRNL", "IXON"},
     oflag |-> ios.oflag \ {"OPOST"},
     lflag |-> ios.lflag \ {"ECHO", "ECHONL", "ICANON", "ISIG", "IEXTEN"},
     cflag |-> (ios.cflag \ {"CS6", "CS7", "PARENB"}) \cup {"CS6", "CS7"},
     vmin |-> 0, vtime |-> 0]

\* get_terminal_attr(), lines 105-114: tcgetattr(0, ..) fills a zeroed struct; its
\* return value is not looked at, so a failed call hands back the zeroed struct
get_terminal_attr == IF stdin_tty THEN tty ELSE Zeroed

\* set_terminal_attr(t), lines 117-122: the terminal's settings after tcsetattr(0, 0, t)
set_terminal_attr(t) == IF stdin_tty THEN t ELSE tty

\* variant: the working copy kept instead of the snapshot
SavedWorkingCopy == RawMode(get_terminal_attr)

\* the value new() keeps in RustBox.orig_ios: the first get_terminal_attr()
SavedSettings == get_terminal_attr

(* --------------------------- BufferedFile ---------------------------- *)
ErrorKind == {"Interrupted", "BrokenPipe"}

\* variant: no arm for Interrupted
RetryableNever(kind) == FALSE

\* the match guard of flush_inner's third arm
Retryable(kind) == kind = "Interrupted"

\* variant: the loop entered once more, with nothing left to write
LoopCondInclusive(w, l) == w <= l

\* while written < len
LoopCond(w, l) == w < l

\* variant: &self.buf[..], every write starts at the first byte
UnwrittenFromStart(b, w) == b

\* &self.buf[written..]
Unwritten(b, w) == SubSeq(b, w + 1, Len(b))

\* variant: nothing is drained
DrainNothing(b, w) == b

\* if written > 0 { self.buf.drain(..written); }
Drain(b, w) == IF w > 0 THEN SubSeq(b, w + 1, Len(b)) ELSE b

\* variant: Ok(0) ends the loop without an error
WriteZeroAsOk == "Ok"

\* the result flush_inner returns after Ok(0)
WriteZeroResult == "WriteZero"

\* the byte counts a device write of rem bytes may confirm
WriteSizes(rem) == {n \in 1..rem : n = rem \/ n % granule = 0}

\* Write::write for BufferedFile: append to the pending buffer, no I/O
BufWrite(bytes) ==
    /\ buf' = buf \o bytes
    /\ queued' = queued \o bytes

\* flush(): flush_inner's prologue and first loop test; when the loop is not entered
\* nothing is drained and inner.flush() (a no-op on File) returns Ok
FlushCall(who) ==
    /\ caller' = who
    /\ written' = 0
    /\ len' = Len(buf')
    /\ ret' = "Ok"
    /\ wlast' = "none"
    /\ buf0' = buf'
    /\ dev0' = dev
    /\ pc' = IF LoopCond(0, Len(buf')) THEN "flushing" ELSE "returned"

\* the locals go out of scope when the caller takes the result
FlushDone ==
    /\ caller' = "none"
    /\ written' = 0
    /\ len' = 0
    /\ ret' = "Ok"
    /\ wlast' = "none"
    /\ buf0' = <<>>
    /\ dev0' = <<>>
    /\ mark' = 0

\* variant: the offset left where it was
AdvanceNothing(w, n) == w

\* flush_inner's second arm, line 74: written += n
Advance(w, n) == w + n

\* Ok(n), n > 0: the device took the first n bytes of the slice; written += n;
\* then the loop test, and after the loop the drain
flush_write_ok ==
    /\ pc = "flushing"
    /\ \E n \in WriteSizes(Len(Unwritten(buf, written))) :
         /\ dev' = dev \o SubSeq(Unwritten(buf, written), 1, n)
         /\ written' = Advance(written, n)
    /\ wlast' = "ok"
    /\ IF LoopCond(written', len)
         THEN pc' = "flushing" /\ buf' = buf
         ELSE pc' = "returned" /\ buf' = Drain(buf, written')
    /\ UNCHANGED <<caller, len, ret, granule, buf0, dev0, mark, queued, nfaults>>
    /\ UNCHANGED session_vars

\* Ok(0): ret = Err(WriteZero), break, drain
flush_write_zero ==
    /\ pc = "flushing"
    /\ nfaults < MaxFaults
    /\ nfaults' = nfaults + 1
    /\ ret' = WriteZeroResult
    /\ wlast' = "zero"
    /\ buf' = Drain(buf, written)
    /\ pc' = "returned"
    /\ UNCHANGED <<caller, dev, written, len, granule, buf0, dev0, mark, queued>>
    /\ UNCHANGED session_vars

\* Err(e) with e.kind() == Interrupted: the loop goes round again
flush_write_interrupted ==
    /\ pc = "flushing"
    /\ \E kind \in ErrorKind : Retryable(kind)
    /\ wlast' = "intr"
    /\ UNCHANGED <<pc, caller, buf, dev, written, len, ret, granule, buf0, dev0, mark,
                   queued, nfaults>>
    /\ UNCHANGED session_vars

\* Err(e), any other kind: ret = Err(e), break, drain
flush_write_error ==
    /\ pc = "flushing"
    /\ nfaults < MaxFaults
    /\ nfaults' = nfaults + 1
    /\ \E kind \in ErrorKind :
         /\ ~Retryable(kind)
         /\ ret' = kind
    /\ wlast' = "err"
    /\ buf' = Drain(buf, written)
    /\ pc' = "returned"
    /\ UNCHANGED <<caller, dev, written, len, granule, buf0, dev0, mark, queued>>
    /\ UNCHANGED session_vars

(* ------------------------------ RustBox ------------------------------ *)
\* variant: the cursor hidden before the alternate screen is entered
EnterSequencesCursorFirst == HideCursor \o EnterCa \o EnterKeypad \o SGR0 \o ClearScreen

\* the five write! calls of new(), lines 199-203
EnterSequences == EnterCa \o EnterKeypad \o HideCursor \o SGR0 \o ClearScreen

\* new(), lines 175-205: snapshot, raw mode, open, geometry, the five sequences, flush
new ==
    /\ phase = "Uninitialized"
    /\ pc = "idle"
    /\ caller = "none"
    /\ pre_ios' = tty
    /\ orig_ios' = SavedSettings
    /\ tty' = RawMode(get_terminal_attr)
    /\ \E g \in Geometries : width' = g[1] /\ height' = g[2]
    /\ mark' = Len(buf)
    /\ BufWrite(EnterSequences)
    /\ FlushCall("new")
    /\ UNCHANGED <<phase, panicked, front_buffer, back_buffer, dev, granule, restores,
                   latest, noob, stdin_tty, present_result, second, nfaults, npresent,
                   nsetcell>>

\* OpenOptions::open("/dev/tty").unwrap() panics: nothing was built, nothing is dropped
new_open_failed ==
    /\ phase = "Uninitialized"
    /\ pc = "idle"
    /\ caller = "none"
    /\ phase' = "Failed"
    /\ UNCHANGED <<pc, caller, panicked, tty, orig_ios, width, height, front_buffer,
                   back_buffer, buf, dev, written, len, ret, wlast, granule, buf0, dev0,
                   mark, queued, restores, pre_ios, latest, noob, stdin_tty,
                   present_result, second, nfaults, npresent, nsetcell>>

\* new(), lines 205-226: the flush result is discarded, the buffers are allocated
new_alloc ==
    /\ pc = "returned"
    /\ caller = "new"
    /\ back_buffer' = AllocBuffer(width, height)
    /\ front_buffer' = back_buffer'
    /\ latest' = [p \in (0..(width - 1)) \X (0..(height - 1)) |-> InitCell]
    /\ phase' = "Active"
    /\ pc' = "idle"
    /\ FlushDone
    /\ UNCHANGED <<panicked, tty, orig_ios, width, height, buf, dev, granule, queued,
                   restores, pre_ios, noob, stdin_tty, present_result, second, nfaults,
                   npresent, nsetcell>>

print_char ==
    /\ phase = "Active"
    /\ pc = "idle"
    /\ ~panicked
    /\ nsetcell < MaxSetCells
    /\ \E c \in PrintCharInputs :
         /\ InBounds(back_buffer, c.x, c.y)
         /\ back_buffer' = StoreCell(back_buffer, c.x, c.y, c)
         /\ latest' = [latest EXCEPT ![<<c.x, c.y>>] = CellOf(c)]
         /\ noob' = noob + (IF c.x >= width \/ c.y >= height THEN 1 ELSE 0)
    /\ nsetcell' = nsetcell + 1
    /\ UNCHANGED <<phase, pc, caller, panicked, tty, orig_ios, width, height,
                   front_buffer, buf, dev, written, len, ret, wlast, granule, buf0, dev0,
                   mark, queued, restores, pre_ios, stdin_tty, present_result, second,
                   nfaults, npresent>>

\* the index panics before any field is assigned; the session's scope unwinds
print_char_panic ==
    /\ phase = "Active"
    /\ pc = "idle"
    /\ ~panicked
    /\ nsetcell < MaxSetCells
    /\ \E c \in PrintCharInputs :
         /\ ~InBounds(back_buffer, c.x, c.y)
         /\ noob' = noob + (IF c.x >= width \/ c.y >= height THEN 1 ELSE 0)
    /\ panicked' = TRUE
    /\ nsetcell' = nsetcell + 1
    /\ UNCHANGED <<phase, pc, caller, tty, orig_ios, width, height, front_buffer,
                   back_buffer, buf, dev, written, len, ret, wlast, granule, buf0, dev0,
                   mark, queued, restores, pre_ios, latest, stdin_tty, present_result,
                   second, nfaults, npresent>>

\* variant: the front buffer left as the previous present made it
PresentedFrontStale == front_buffer

\* present(), line 240: self.front_buffer = self.back_buffer.clone()
PresentedFront == back_buffer

\* present(), lines 240-272: clone, queue every cell, call flush
present ==
    /\ phase = "Active"
    /\ pc = "idle"
    /\ ~panicked
    /\ npresent < MaxPresents
    /\ front_buffer' = PresentedFront
    /\ mark' = Len(buf)
    /\ BufWrite(GridBytes(front_buffer', 1))
    /\ FlushCall("present")
    /\ npresent' = npresent + 1
    /\ UNCHANGED <<phase, panicked, tty, orig_ios, width, height, back_buffer, dev,
                   granule, restores, pre_ios, latest, noob, stdin_tty, present_result,
                   second, nfaults, nsetcell>>

\* present(), lines 238 and 272: let _ = flush result; the function's type is ()
present_ret ==
    /\ pc = "returned"
    /\ caller = "present"
    /\ pc' = "idle"
    /\ present_result' = "()"
    /\ FlushDone
    /\ UNCHANGED <<phase, panicked, tty, orig_ios, width, height, front_buffer,
                   back_buffer, buf, dev, granule, queued, restores, pre_ios, latest,
                   noob, stdin_tty, second, nfaults, npresent, nsetcell>>

\* Drop for RustBox, lines 279-286: the four sequences are queued, then
\* set_terminal_attr(&self.orig_ios); it runs when the owner's scope ends or unwinds
drop ==
    /\ phase = "Active"
    /\ pc = "idle"
    /\ mark' = Len(buf)
    /\ BufWrite(ShowCursor \o ClearScreen \o ExitCa \o ExitKeypad)
    /\ tty' = set_terminal_attr(orig_ios)
    /\ restores' = Append(restores, orig_ios)
    /\ pc' = "dropping"
    /\ UNCHANGED <<phase, caller, panicked, orig_ios, width, height, front_buffer,
                   back_buffer, dev, written, len, ret, wlast, granule, buf0, dev0,
                   pre_ios, latest, noob, stdin_tty, present_result, second, nfaults,
                   npresent, nsetcell>>

\* after RustBox's drop body its fields are dropped; Drop for BufferedFile calls flush
drop_outf ==
    /\ phase = "Active"
    /\ pc = "dropping"
    /\ buf' = buf
    /\ FlushCall("drop")
    /\ UNCHANGED <<phase, panicked, tty, orig_ios, width, height, front_buffer,
                   back_buffer, dev, granule, mark, queued, restores, pre_ios,
                   latest, noob, stdin_tty, present_result, second, nfaults, npresent,
                   nsetcell>>

\* Drop for BufferedFile discards the result; the session is gone
drop_end ==
    /\ pc = "returned"
    /\ caller = "drop"
    /\ phase' = "Closed"
    /\ pc' = "idle"
    /\ FlushDone
    /\ UNCHANGED <<panicked, tty, orig_ios, width, height, front_buffer, back_buffer,
                   buf, dev, granule, queued, restores, pre_ios, latest, noob, stdin_tty,
                   present_result, second, nfaults, npresent, nsetcell>>

Start(g) ==
    /\ phase = "Uninitialized"
    /\ pc = "idle"
    /\ caller = "none"
    /\ panicked = FALSE
    /\ tty = Cooked
    /\ orig_ios = Zeroed
    /\ width = 0
    /\ height = 0
    /\ front_buffer = <<>>
    /\ back_buffer = <<>>
    /\ buf = <<>>
    /\ dev = <<>>
    /\ written = 0
    /\ len = 0
    /\ ret = "Ok"
    /\ wlast = "none"
    /\ granule = g
    /\ buf0 = <<>>
    /\ dev0 = <<>>
    /\ mark = 0
    /\ queued = <<>>
    /\ restores = <<>>
    /\ pre_ios = Zeroed
    /\ latest = <<>>
    /\ noob = 0
    /\ present_result = "none"
    /\ second = <<>>
    /\ nfaults = 0
    /\ npresent = 0
    /\ nsetcell = 0

\* a session on a terminal that takes a whole write or PartialLen bytes of it,
\* started by a process whose fd 0 is that terminal
Init == Start(PartialLen) /\ stdin_tty = TRUE

Next ==
    \/ new
    \/ new_open_failed
    \/ new_alloc
    \/ print_char
    \/ print_char_panic
    \/ present
    \/ present_ret
    \/ drop
    \/ drop_outf
    \/ drop_end
    \/ flush_write_ok
    \/ flush_write_zero
    \/ flush_write_interrupted
    \/ flush_write_error

Spec == Init /\ [][Next]_vars

\* RustBox::new() called again while the first RustBox is alive: new() has no
\* parameter and looks at no state of the program, so the call runs like the first.
\* The snapshot is what the terminal has now, the second struct has its own
\* BufferedFile, whose flush hands the device the first k bytes (all of them unless a
\* write failed), and its own grids; the terminal reports the geometry it has.
new_again ==
    /\ phase = "Active"
    /\ pc = "idle"
    /\ ~panicked
    /\ second = <<>>
    /\ tty' = RawMode(get_terminal_attr)
    /\ \E k \in {0, Len(EnterSequences)} :
         /\ nfaults' = nfaults + (IF k < Len(EnterSequences) THEN 1 ELSE 0)
         /\ nfaults' <= MaxFaults
         /\ dev' = dev \o SubSeq(EnterSequences, 1, k)
         /\ second' = <<[orig_ios |-> SavedSettings,
                        width |-> width,
                        height |-> height,
                        back_buffer |-> AllocBuffer(width, height),
                        front_buffer |-> AllocBuffer(width, height),
                        outf |-> SubSeq(EnterSequences, k + 1, Len(EnterSequences))]>>
    /\ UNCHANGED <<phase, pc, caller, panicked, orig_ios, width, height, front_buffer,
                   back_buffer, buf, written, len, ret, wlast, granule, buf0, dev0, mark,
                   queued, restores, pre_ios, latest, noob, stdin_tty, present_result,
                   npresent, nsetcell>>

NextTwice ==
    \/ Next
    \/ new_again

\* a program that may call RustBox::new() a second time
SpecTwice == Init /\ [][NextTwice]_vars

\* the same session started by a process whose fd 0 may be something else than the
\* terminal (a pipe, a file): tcgetattr(0, ..) and tcsetattr(0, ..) then fail with ENOTTY
InitAnyStdin == Start(PartialLen) /\ stdin_tty \in BOOLEAN

SpecAnyStdin == InitAnyStdin /\ [][Next]_vars

(* --------------- BufferedFile on its own, any client ----------------- *)
\* the slices a client passes to write
WriteInputs == {<<65>>, <<66>>, <<65, 66>>, <<66, 67>>}

\* Write::write
write ==
    /\ pc = "idle"
    /\ \E bytes \in WriteInputs :
         /\ Len(queued) + Len(bytes) <= MaxQueued
         /\ BufWrite(bytes)
    /\ UNCHANGED <<pc, caller, dev, written, len, ret, wlast, granule, buf0, dev0, mark,
                   nfaults>>
    /\ UNCHANGED session_vars

\* Write::flush, called by the client
flush ==
    /\ pc = "idle"
    /\ buf' = buf
    /\ FlushCall("client")
    /\ UNCHANGED <<dev, granule, mark, queued, nfaults>>
    /\ UNCHANGED session_vars

\* the client takes the io::Result
flush_ret ==
    /\ pc = "returned"
    /\ caller = "client"
    /\ pc' = "idle"
    /\ FlushDone
    /\ UNCHANGED <<buf, dev, granule, queued, nfaults>>
    /\ UNCHANGED session_vars

\* a device that may confirm any positive number of the bytes it is given
InitChannel == Start(1) /\ stdin_tty = TRUE

NextChannel ==
    \/ write
    \/ flush
    \/ flush_ret
    \/ flush_write_ok
    \/ flush_write_zero
    \/ flush_write_interrupted
    \/ flush_write_error

SpecChannel == InitChannel /\ [][NextChannel]_vars

\* a device write that is not interrupted: one of the other three outcomes
flush_write_decisive ==
    \/ flush_write_ok
    \/ flush_write_zero
    \/ flush_write_error

\* the same channel on a device that does not answer Interrupted forever: the
\* blocking write of the loop returns, and eventually with another outcome
SpecChannelFair == SpecChannel /\ WF_vars(flush_write_decisive)

(* ======================= properties of the session =================== *)

\* ---- decoding of what present queues, independent of CellBytes ----
Match(b, i, pat) ==
    /\ i + Len(pat) - 1 <= Len(b)
    /\ SubSeq(b, i, i + Len(pat) - 1) = pat

\* the decimal digits from b[i] up to the final m: <<value, index after the m>>,
\* <<-1, 0>> when there is no such number
RECURSIVE ReadNumber(_, _, _)
ReadNumber(b, i, acc) ==
    IF i > Len(b) THEN <<-1, 0>>
    ELSE IF b[i] = 109 THEN (IF acc < 0 THEN <<-1, 0>> ELSE <<acc, i + 1>>)
    ELSE IF b[i] \in 48..57
         THEN ReadNumber(b, i + 1, (IF acc < 0 THEN 0 ELSE acc * 10) + b[i] - 48)
    ELSE <<-1, 0>>

\* one UTF-8 encoded character at b[i]: <<code point, index after it>>
ReadChar(b, i) ==
    IF i > Len(b) \/ i < 1 THEN <<-1, 0>>
    ELSE IF b[i] < 128 THEN <<b[i], i + 1>>
    ELSE IF b[i] \in 192..223 /\ i + 1 <= Len(b)
         THEN <<(b[i] - 192) * 64 + (b[i + 1] - 128), i + 2>>
    ELSE IF b[i] \in 224..239 /\ i + 2 <= Len(b)
         THEN <<(b[i] - 224) * 4096 + (b[i + 1] - 128) * 64 + (b[i + 2] - 128), i + 3>>
    ELSE <<-1, 0>>

StyleOfDigit(d) ==
    CASE d = 52 -> "Underline"
      [] d = 49 -> "Bold"
      [] d = 53 -> "Blink"
      [] d = 55 -> "Reverse"
      [] OTHER -> "?"

\* one cell's output at b[i]: reset, an optional ESC [ d m, ESC [ 38;5;N m,
\* ESC [ 48;5;N m, one character, in that order
ReadCell(b, i) ==
    LET i1 == i + 4
        hasStyle == Match(b, i1, <<27, 91>>) /\ i1 + 3 <= Len(b) /\ b[i1 + 3] = 109
        style == IF hasStyle THEN StyleOfDigit(b[i1 + 2]) ELSE "Normal"
        i2 == IF hasStyle THEN i1 + 4 ELSE i1
        fg == IF Match(b, i2, <<27, 91, 51, 56, 59, 53, 59>>)
              THEN ReadNumber(b, i2 + 7, -1) ELSE <<-1, 0>>
        bg == IF fg[1] >= 0 /\ Match(b, fg[2], <<27, 91, 52, 56, 59, 53, 59>>)
              THEN ReadNumber(b, fg[2] + 7, -1) ELSE <<-1, 0>>
        ch == IF bg[1] >= 0 THEN ReadChar(b, bg[2]) ELSE <<-1, 0>>
    IN  [ok |-> Match(b, i, <<27, 91, 109, 15>>) /\ style # "?" /\ ch[1] >= 0,
         next |-> ch[2],
         cell |-> [style |-> style, fg |-> fg[1], bg |-> bg[1], ch |-> ch[1]]]

RECURSIVE ReadCells(_, _)
ReadCells(b, i) ==
    IF i > Len(b) THEN [ok |-> TRUE, cells |-> <<>>]
    ELSE LET c == ReadCell(b, i)
         IN  IF ~c.ok THEN [ok |-> FALSE, cells |-> <<>>]
             ELSE LET r == ReadCells(b, c.next)
                  IN  [ok |-> r.ok, cells |-> <<c.cell>> \o r.cells]

\* the bytes the operation in progress queued (valid while its flush is in progress)
Frame == SubSeq(buf0, mark + 1, Len(buf0))

\* the four reverse sequences, as the bytes the terminal must receive
ReverseSet ==
    <<27, 91, 63, 50, 53, 104>> \o <<27, 91, 72, 27, 91, 50, 74>>
    \o <<27, 91, 63, 49, 48, 52, 57, 108, 27, 91, 50, 51, 59, 48, 59, 48, 116>>
    \o <<27, 62>>

IsSuffix(s, t) == Len(s) <= Len(t) /\ SubSeq(t, Len(t) - Len(s) + 1, Len(t)) = s

\* C1: teardown of a session that reached Active calls restore exactly once, with the
\* settings the terminal had when new() was entered (not the raw-mode copy), whatever
\* print_char and present did before, failed flushes and out-of-bounds panics included;
\* no restore happens before teardown or without a session.
C1_RestoreOnceWithSnapshot ==
    /\ Len(restores) <= 1
    /\ phase \in {"Uninitialized", "Failed"} => restores = <<>>
    /\ (phase = "Active" /\ pc \in {"idle", "flushing", "returned"} /\ caller # "drop")
          => restores = <<>>
    /\ (phase = "Closed" \/ pc = "dropping" \/ caller = "drop") => restores = <<pre_ios>>

C1_Witness ==
    /\ phase = "Closed"
    /\ panicked
    /\ nfaults = 1
    /\ npresent >= 1
    /\ restores = <<Cooked>>
    /\ Cooked # RawMode(Cooked)

\* C2 (as claimed): whenever the original settings have been restored, the reverse
\* sequence set was queued before and the flush of the output channel that follows
\* the queueing has already run.
C2_RestoreAfterFlush ==
    restores # <<>> =>
        /\ IsSuffix(ReverseSet, queued)
        /\ (phase = "Closed" \/ (caller = "drop" /\ pc = "returned"))

(* ====================== properties of BufferedFile =================== *)

\* the bytes the device confirmed during the current flush
Confirmed == Len(dev) - Len(dev0)

\* C3: a flush that returns Ok has written every byte that was pending when it
\* started, once and in queue order, and left the pending buffer empty; it never
\* returns Ok with bytes undelivered.
C3_FlushOkDeliversAll ==
    (pc = "returned" /\ ret = "Ok") =>
        /\ buf = <<>>
        /\ dev = dev0 \o buf0
        /\ dev = queued

C3_Witness ==
    /\ pc = "returned"
    /\ ret = "Ok"
    /\ Len(buf0) >= 3
    /\ dev0 # <<>>
    /\ nfaults = 1

\* C4: when flush returns on any path after the device confirmed k bytes, the pending
\* buffer is the previous one without its first k bytes and the device received
\* exactly those k bytes; at every moment the device stream followed by the
\* unconfirmed pending bytes is everything ever queued, so no byte is sent twice.
C4_DrainExactlyConfirmed ==
    /\ pc = "returned" =>
          /\ Confirmed \in 0..Len(buf0)
          /\ buf = SubSeq(buf0, Confirmed + 1, Len(buf0))
          /\ dev = dev0 \o SubSeq(buf0, 1, Confirmed)
    /\ dev \o SubSeq(buf, (IF pc = "flushing" THEN written ELSE 0) + 1, Len(buf)) = queued

C4_Witness ==
    /\ pc = "returned"
    /\ ret # "Ok"
    /\ Confirmed > 0
    /\ Confirmed < Len(buf0)
    /\ dev0 # <<>>

\* C5: a device write that reports zero bytes ends the flush at once with WriteZero
\* (and only such a write does), and the bytes drained from the pending buffer are
\* exactly those confirmed before it.
C5_WriteZero ==
    /\ wlast = "zero" =>
          /\ pc = "returned"
          /\ ret = "WriteZero"
          /\ Len(buf0) - Len(buf) = Confirmed
          /\ written = Confirmed
          /\ buf # <<>>
    /\ (pc = "returned" /\ ret = "WriteZero") => wlast = "zero"

C5_Witness ==
    /\ wlast = "zero"
    /\ Confirmed = 2
    /\ Len(buf) = 2

\* C6: an interrupted device write changes nothing but the record of the last outcome
\* (same offset, same pending bytes, same device stream, same result so far) and the
\* loop goes on; Interrupted is never the result of flush.
C6_InterruptedAbsorbed ==
    /\ [][(pc = "flushing" /\ wlast' = "intr") =>
            /\ pc' = "flushing"
            /\ written' = written
            /\ buf' = buf
            /\ dev' = dev
            /\ ret' = ret
            /\ len' = len]_vars
    /\ [](ret # "Interrupted")

C6_Witness ==
    /\ pc = "flushing"
    /\ wlast = "intr"
    /\ written > 0
    /\ nfaults = 0

\* C7: a flush called with an empty pending buffer issues no device write, returns Ok
\* and leaves device stream and pending buffer as they were.
C7_EmptyFlush ==
    (caller # "none" /\ buf0 = <<>>) =>
        /\ pc = "returned"
        /\ ret = "Ok"
        /\ wlast = "none"
        /\ dev = dev0
        /\ buf = <<>>

C7_Witness ==
    /\ pc = "returned"
    /\ caller = "client"
    /\ buf0 = <<>>
    /\ dev # <<>>
    /\ nfaults = 1

(* ========================= properties of present ===================== *)

\* C8: what a present call queues decodes to exactly width * height cells whose
\* characters are those of the grid in row-major order, however many cells were set
\* since the previous present.
C8_PresentRowMajor ==
    caller = "present" =>
        LET p == ReadCells(Frame, 1)
        IN  /\ p.ok
            /\ Len(p.cells) = width * height
            /\ \A y \in 0..(height - 1), x \in 0..(width - 1) :
                 p.cells[y * width + x + 1].ch = latest[<<x, y>>].ch

C8_Witness ==
    /\ caller = "present"
    /\ width = 2
    /\ height = 2
    /\ npresent = 2
    /\ nsetcell = 1
    /\ latest[<<1, 0>>].ch = 233
    /\ latest[<<0, 1>>].ch = 120

\* C9: for every cell, present queues reset, the style fragment (exactly when the
\* style is not Normal), set-foreground, set-background, the character, in that
\* order, with the values of the latest print_char on that cell or the initial ones.
C9_CellAttributeOrder ==
    caller = "present" =>
        LET p == ReadCells(Frame, 1)
        IN  /\ p.ok
            /\ Len(p.cells) = Cardinality(DOMAIN latest)
            /\ \A k \in 1..Len(p.cells) :
                 LET want == latest[<<(k - 1) % width, (k - 1) \div width>>]
                 IN  p.cells[k] = [style |-> want.style,
                                   fg |-> as_256_color(want.fg) % 256,
                                   bg |-> as_256_color(want.bg) % 256,
                                   ch |-> want.ch]

C9_Witness ==
    /\ caller = "present"
    /\ width = 2
    /\ height = 2
    /\ nsetcell = 2
    /\ latest[<<0, 0>>].style = "Underline"
    /\ \A q \in DOMAIN latest : q # <<0, 0>> => latest[q] = InitCell

\* C10: an in-bounds print_char(x, y, ...) sets the back-buffer cell at row y,
\* column x to the given values and changes no other back-buffer cell, nothing of
\* the front buffer, the dimensions, the pending output, the settings snapshot or
\* the device.
C10_PrintCharFrame ==
    [][(nsetcell' # nsetcell /\ ~panicked') =>
        /\ \E c \in PrintCharInputs :
             /\ c.x < width
             /\ c.y < height
             /\ latest' = [latest EXCEPT ![<<c.x, c.y>>] = CellOf(c)]
             /\ back_buffer' =
                   [i \in 1..height |-> [j \in 1..width |->
                       IF i = c.y + 1 /\ j = c.x + 1 THEN CellOf(c)
                       ELSE back_buffer[i][j]]]
        /\ UNCHANGED <<front_buffer, width, height, buf, orig_ios, dev, tty, pc>>]_vars

C10_Witness ==
    /\ width = 2
    /\ height = 2
    /\ nsetcell = 2
    /\ ~panicked
    /\ npresent = 1
    /\ pc = "idle"
    /\ front_buffer # back_buffer
    /\ back_buffer[1][2].ch = 233
    /\ back_buffer[2][1] = InitCell

\* C11: a print_char call with x >= width or y >= height, which is every call on a
\* grid 0 wide or 0 high, panics instead of landing on some other cell, and leaves
\* every cell of the back and the front buffer as it was
C11_OutOfBoundsPanics ==
    /\ [](noob > 0 => panicked)
    /\ [](phase = "Active" /\ nsetcell > 0 /\ (width = 0 \/ height = 0) => panicked)
    /\ [][noob' # noob =>
            /\ panicked'
            /\ back_buffer' = back_buffer
            /\ front_buffer' = front_buffer
            /\ latest' = latest]_vars

C11_Witness ==
    /\ panicked
    /\ noob = 1
    /\ nsetcell = 2
    /\ width = 2
    /\ height = 2
    /\ back_buffer # front_buffer

\* height rows of width cells each
HasShape(grid) ==
    /\ Len(grid) = height
    /\ \A i \in 1..Len(grid) : Len(grid[i]) = width

\* C12: while the session is Active the front and the back buffer both have exactly
\* height rows of exactly width cells, and width and height never change
C12_GridDimensions ==
    /\ [](phase = "Active" => HasShape(front_buffer) /\ HasShape(back_buffer))
    /\ [][phase = "Active" => width' = width /\ height' = height]_vars

C12_Witness ==
    /\ phase = "Active"
    /\ pc = "idle"
    /\ width = 2
    /\ height = 1
    /\ nsetcell = 2
    /\ npresent = 2
    /\ ~panicked

\* C13: when the flush that present performs fails, with WriteZero or with an error
\* other than Interrupted, the caller of present receives that failure
C13_PresentPropagatesFailure ==
    [][(pc = "returned" /\ caller = "present" /\ ret # "Ok" /\ pc' = "idle")
          => present_result' = ret]_vars

\* C14: when the attribute query or the attribute apply fails (fd 0 is not the
\* terminal) or the device cannot be opened, initialization is fatal: the session
\* never becomes Active, no grid is allocated, no enter sequence is queued
C14_InitFailureFatal ==
    (~stdin_tty \/ phase = "Failed") =>
        /\ phase # "Active"
        /\ back_buffer = <<>>
        /\ front_buffer = <<>>
        /\ queued = <<>>

\* C15: at most one session is Active for the terminal: while one is, no second
\* RustBox comes out of new()
C15_SingleActiveSession == phase = "Active" => second = <<>>

\* the palette indices the colours stand for
ColourIndex(c) ==
    IF c = "Black" THEN 0 ELSE IF c = "Red" THEN 1 ELSE IF c = "White" THEN 7 ELSE -1

\* C16: every colour has one index, Black 0, Red 1, White 7, and the numbers in the
\* set-foreground and set-background sequences present queues for a cell are these
\* indices of the cell's colours, within 0..255
C16_ColourMapping ==
    /\ \A c \in Color : as_256_color(c) = ColourIndex(c) /\ as_256_color(c) \in 0..255
    /\ caller = "present" =>
          LET p == ReadCells(Frame, 1)
          IN  /\ p.ok
              /\ Len(p.cells) = width * height
              /\ \A y \in 0..(height - 1), x \in 0..(width - 1) :
                   LET got == p.cells[y * width + x + 1]
                   IN  /\ got.fg = ColourIndex(latest[<<x, y>>].fg) % 256
                       /\ got.bg = ColourIndex(latest[<<x, y>>].bg) % 256
                       /\ got.fg \in 0..255
                       /\ got.bg \in 0..255

C16_Witness ==
    /\ caller = "present"
    /\ pc = "returned"
    /\ ret = "Ok"
    /\ {latest[q].fg : q \in DOMAIN latest} = Color
    /\ {latest[q].bg : q \in DOMAIN latest} = Color

\* a cell that shows as empty: a space in Normal style
IsBlank(cell) == cell.ch = 32 /\ cell.style = "Normal"

\* C17: right after new() every back-buffer cell is the blank cell and the front
\* buffer equals the back buffer, so that a present before any print_char queues
\* blank cells only
C17_InitialGridBlank ==
    /\ (phase = "Active" /\ nsetcell = 0 /\ npresent = 0) =>
          /\ front_buffer = back_buffer
          /\ \A i \in 1..Len(back_buffer) : \A j \in 1..Len(back_buffer[i]) :
                IsBlank(back_buffer[i][j])
    /\ (caller = "present" /\ nsetcell = 0) =>
          LET p == ReadCells(Frame, 1)
          IN  p.ok /\ \A k \in 1..Len(p.cells) : IsBlank(p.cells[k])

\* enter-alternate-screen, enter-keypad-mode, hide-cursor, reset-attributes,
\* clear-screen, as the bytes the terminal must receive
EnterSet ==
    <<27, 91, 63, 49, 48, 52, 57, 104, 27, 91, 50, 50, 59, 48, 59, 48, 116>>
    \o <<27, 61>>
    \o <<27, 91, 63, 50, 53, 108>>
    \o <<27, 91, 109, 15>>
    \o <<27, 91, 72, 27, 91, 50, 74>>

IsPrefix(s, t) == Len(s) <= Len(t) /\ SubSeq(t, 1, Len(s)) = s

\* C18: new() queues exactly the five enter sequences, in the order alternate
\* screen, keypad, hide cursor, reset, clear, each once, and then runs one flush that
\* starts with all of them pending; the device receives nothing before raw mode is
\* applied, and what it receives starts with these sequences, before any cell
C18_EnterSequencesFirst ==
    /\ phase = "Uninitialized" =>
          \/ caller = "none" /\ pc = "idle" /\ queued = <<>> /\ dev = <<>>
          \/ /\ caller = "new"
             /\ pc \in {"flushing", "returned"}
             /\ queued = EnterSet
             /\ Frame = EnterSet
             /\ buf0 = EnterSet
             /\ dev0 = <<>>
    /\ queued # <<>> => IsPrefix(EnterSet, queued)
    /\ IsPrefix(dev, queued)
    /\ (dev # <<>> /\ restores = <<>>) => tty = RawMode(pre_ios) /\ tty # pre_ios

C18_Witness ==
    /\ caller = "new"
    /\ pc = "returned"
    /\ ret = "Ok"
    /\ dev = EnterSet
    /\ buf = <<>>
    /\ tty = RawMode(Cooked)

\* C19: a present call leaves the front buffer equal to the back buffer and the
\* back buffer as it was, whether its flush succeeds or fails; a present that follows
\* a present with no print_char between them queues the same bytes again; and the
\* call runs one flush, started when the last cell has been queued
C19_PresentFrame ==
    /\ [](caller = "present" => front_buffer = back_buffer)
    /\ [][npresent' # npresent =>
            LET n == Len(queued') - Len(queued)
            IN  /\ front_buffer' = back_buffer
                /\ back_buffer' = back_buffer
                /\ caller' = "present"
                /\ pc' \in {"flushing", "returned"}
                /\ dev' = dev
                /\ buf' = buf \o SubSeq(queued', Len(queued) + 1, Len(queued'))
                /\ buf0' = buf'
                /\ (npresent >= 1 /\ front_buffer = back_buffer) =>
                      /\ n <= Len(queued)
                      /\ SubSeq(queued', Len(queued) + 1, Len(queued'))
                            = SubSeq(queued, Len(queued) - n + 1, Len(queued))]_vars
    /\ [][(caller = "present" /\ caller' # "present") =>
            /\ pc' = "idle"
            /\ caller' = "none"
            /\ front_buffer' = back_buffer'
            /\ back_buffer' = back_buffer
            /\ UNCHANGED <<buf, dev, queued>>]_vars

C19_Witness ==
    /\ phase = "Active"
    /\ pc = "idle"
    /\ npresent = 2
    /\ nsetcell = 0
    /\ width = 2
    /\ height = 2
    /\ nfaults = 1
    /\ buf # <<>>
    /\ front_buffer = back_buffer

\* C20: on a device that does not answer Interrupted forever every flush returns;
\* a write that is not interrupted either raises the confirmed count, by no more than
\* what was left, or ends the loop with an error, so at most len writes make progress;
\* an interrupted write leaves the loop where it was, free to be interrupted again
C20_FlushTerminates ==
    /\ (pc = "flushing") ~> (pc = "returned")
    /\ [](pc = "flushing" => written < len /\ ENABLED flush_write_interrupted)
    /\ [][pc = "flushing" =>
            \/ /\ wlast' = "intr"
               /\ UNCHANGED <<pc, written, len, buf, dev, ret>>
            \/ /\ wlast' = "ok"
               /\ written < written'
               /\ written' <= len
               /\ Len(dev') - Len(dev) = written' - written
               /\ pc' = (IF written' < len THEN "flushing" ELSE "returned")
               /\ ret' = "Ok"
            \/ /\ wlast' \in {"zero", "err"}
               /\ written' = written
               /\ dev' = dev
               /\ pc' = "returned"
               /\ ret' \notin {"Ok", "Interrupted"}]_vars

C20_Witness ==
    /\ pc = "returned"
    /\ caller = "client"
    /\ wlast = "ok"
    /\ ret = "Ok"
    /\ len >= 3
    /\ written = len
    /\ Len(dev0) = 1

====
